---- MODULE Spec2Model ----
(***************************************************************************)
(* queryExport.py: acquire a client-credential token, POST a fixed hunting *)
(* query to the advanced-hunting endpoint, print the rows of the answer.   *)
(*                                                                         *)
(* Text is modelled as a sequence of chunks (strings), so that formatting  *)
(* (f-strings, str(), json encoding) is concatenation of chunks and        *)
(* "contains" is a sub-sequence test.  A Python dict is a sequence of      *)
(* <<key, value>> pairs with distinct keys, in insertion order.            *)
(***************************************************************************)
EXTENDS Integers, Sequences, FiniteSets, TLC

\* ---------------------------------------------------------------- bounds
MaxFields == 2     \* fields of a token response
MaxRows == 2       \* rows of a Results array

\* ------------------------------------------------------------- constants
TENANT_ID == "your-tenant-id"
CLIENT_ID == "your-client-id"
CLIENT_SECRET == "your-client-secret"
AUTHORITY == <<"https://login.microsoftonline.com/", TENANT_ID>>
SCOPE == <<"https://api.security.microsoft.com/.default">>
ENDPOINT == "https://api.security.microsoft.com/api/advancedhunting/run"

\* The query literal of lines 26-32, cut at its newlines and double quotes.
QueryText ==
    << "\n", "DeviceProcessEvents",
       "\n", "| where InitiatingProcessFileName =~ ", "\"", "powershell.exe", "\"",
       "\n", "| project Timestamp, FileName, InitiatingProcessFileName",
       "\n", "| order by Timestamp desc",
       "\n", "| limit 2",
       "\n" >>

\* ------------------------------------------------------- Python helpers
\* key in d
HasKey(d, k) == \E i \in 1..Len(d) : d[i][1] = k

\* d[k], for a key that is present
DictGet(d, k) == d[CHOOSE i \in 1..Len(d) : d[i][1] = k][2]

RECURSIVE ReprItems(_)
ReprItems(d) ==
    IF Len(d) = 0 THEN <<>>
    ELSE <<"'", d[1][1], "'", ": ", "'", d[1][2], "'">>
         \o (IF Len(d) > 1 THEN <<", ">> ELSE <<>>)
         \o ReprItems(Tail(d))

\* str(d) of a dict of strings: {'k': 'v', ...}
PyStrDict(d) == <<"{">> \o ReprItems(d) \o <<"}">>

\* sub occurs in text as a run of consecutive chunks
Contains(text, sub) ==
    \E i \in 1..(Len(text) - Len(sub) + 1) :
        SubSeq(text, i, i + Len(sub) - 1) = sub

\* json string escaping of one chunk (newline and double quote)
JsonEscape(c) == IF c = "\n" THEN "\\n" ELSE IF c = "\"" THEN "\\\"" ELSE c
JsonUnescape(c) == IF c = "\\n" THEN "\n" ELSE IF c = "\\\"" THEN "\"" ELSE c

\* json.dumps of a dict with the single key Query (requests' json= argument)
JsonDumps(b) ==
    <<"{", "\"", "Query", "\"", ": ", "\"">>
    \o [i \in 1..Len(b.Query) |-> JsonEscape(b.Query[i])]
    \o <<"\"", "}">>

\* what the endpoint reads back from the payload: the value of Query
JsonLoadsQuery(p) ==
    LET inner == SubSeq(p, 7, Len(p) - 2)
    IN  [i \in 1..Len(inner) |-> JsonUnescape(inner[i])]

\* ------------------------------------------------- the outside world
\* Fields an identity provider may put in its answer, and their values.
TokenKeys == {"access_token", "error", "token_type"}
TokenValues(k) ==
    IF k = "access_token" THEN {"", "tokA", "tokB"}
    ELSE IF k = "error" THEN {"invalid_client"}
    ELSE {"Bearer"}
TokenPairs == UNION { { <<k, v>> : v \in TokenValues(k) } : k \in TokenKeys }
DistinctKeys(d) == \A i, j \in 1..Len(d) : d[i][1] = d[j][1] => i = j
TokenResponses ==
    UNION { { d \in [1..n -> TokenPairs] : DistinctKeys(d) } : n \in 0..MaxFields }

\* Result rows: mappings from field name to value.
RowValues ==
    { << <<"Timestamp", "t1">> >>,
      << <<"Timestamp", "t2">> >>,
      << <<"Timestamp", "t1">>, <<"FileName", "cmd.exe">> >> }
RowArrays == UNION { [1..n -> RowValues] : n \in 0..MaxRows }

\* A JSON value found under "Results".
JArray(rs) == [t |-> "array", rows |-> rs, chars |-> <<>>]
JScalar(kind) == [t |-> kind, rows |-> <<>>, chars |-> <<>>]
JString(cs) == [t |-> "string", rows |-> <<>>, chars |-> cs]
JObject(ks) == [t |-> "object", rows |-> <<>>, chars |-> ks]
ResultsValues ==
    { JArray(rs) : rs \in RowArrays }
    \cup { JScalar("null"), JScalar("number"), JString(<<"a", "b">>),
           JObject(<<"k1">>) }

\* A response body: not JSON at all, a JSON value that is no object, or an
\* object with a set of keys (and the value under "Results" when it has one).
NoResults == JScalar("absent")
JBody(isJson, top, ks, r) == [isJson |-> isJson, top |-> top, keys |-> ks, results |-> r]
Bodies ==
    { JBody(FALSE, "text", {}, NoResults) }
    \cup { JBody(TRUE, top, {}, NoResults) : top \in {"null", "array", "number", "string"} }
    \cup { JBody(TRUE, "object", ks, NoResults) : ks \in {{}, {"Stats"}} }
    \cup { JBody(TRUE, "object", {"Results"}, r) : r \in ResultsValues }
    \cup { JBody(TRUE, "object", {"Results", "Stats"}, JArray(rs)) : rs \in RowArrays }

Statuses == {200, 201, 300, 304, 401, 429, 500}
Responses == { [status_code |-> s, body |-> b] : s \in Statuses, b \in Bodies }

\* ---------------------------------------------------------------- state
VARIABLES
    pc,             \* position in the script
    app,            \* ConfidentialClientApplication
    token_result,   \* answer of acquire_token_for_client
    access_token,
    headers, body,  \* the request as built
    request,        \* the POST as sent
    resp,           \* the response received
    data,           \* resp.json()
    iterable, idx,  \* the value the for loop walks, and its position
    output,         \* printed lines, each a text
    error,          \* the exception that ended the run
    exitMessage,    \* argument of SystemExit
    tokenRequests, posts   \* calls made to the two services

vars == << pc, app, token_result, access_token, headers, body, request, resp,
           data, iterable, idx, output, error, exitMessage, tokenRequests, posts >>

NoApp == [client_id |-> "", authority |-> <<>>, client_credential |-> ""]
NoHeaders == [Authorization |-> <<>>, ContentType |-> <<>>]
NoBody == [Query |-> <<>>]
NoRequest == [url |-> "", headers |-> NoHeaders, data |-> <<>>]
NoResponse == [status_code |-> 0, body |-> JBody(FALSE, "none", {}, NoResults)]
NoData == [top |-> "none", keys |-> {}, results |-> NoResults]

Init ==
    /\ pc = "start"
    /\ app = NoApp
    /\ token_result = <<>>
    /\ access_token = ""
    /\ headers = NoHeaders
    /\ body = NoBody
    /\ request = NoRequest
    /\ resp = NoResponse
    /\ data = NoData
    /\ iterable = <<>>
    /\ idx = 0
    /\ output = <<>>
    /\ error = ""
    /\ exitMessage = <<>>
    /\ tokenRequests = 0
    /\ posts = 0

\* ------------------------------------------------------------- the script
\* lines 14-18
CreateApp ==
    /\ pc = "start"
    /\ app' = [client_id |-> CLIENT_ID, authority |-> AUTHORITY,
               client_credential |-> CLIENT_SECRET]
    /\ pc' = "acquire"
    /\ UNCHANGED << token_result, access_token, headers, body, request, resp, data,
                    iterable, idx, output, error, exitMessage, tokenRequests, posts >>

\* line 19
AcquireToken ==
    /\ pc = "acquire"
    /\ \E tr \in TokenResponses : token_result' = tr
    /\ tokenRequests' = tokenRequests + 1
    /\ pc' = "check"
    /\ UNCHANGED << app, access_token, headers, body, request, resp, data,
                    iterable, idx, output, error, exitMessage, posts >>

\* a check on the provider's error field instead of the token field
TokenMissingOnError(tr) == HasKey(tr, "error") \/ ~HasKey(tr, "access_token")

\* line 20: "access_token" not in token_result
TokenMissing(tr) == ~HasKey(tr, "access_token")

\* a message that leaves the response out
FailureMessageBare(tr) == <<"Failed to get token">>

\* line 21: f"Failed to get token: {token_result}"
FailureMessage(tr) == <<"Failed to get token: ">> \o PyStrDict(tr)

\* lines 20-23
CheckToken ==
    /\ pc = "check"
    /\ IF TokenMissing(token_result)
       THEN /\ exitMessage' = FailureMessage(token_result)
            /\ error' = "SystemExit"
            /\ pc' = "abort_token"
            /\ UNCHANGED access_token
       ELSE /\ access_token' = DictGet(token_result, "access_token")
            /\ pc' = "build"
            /\ UNCHANGED << exitMessage, error >>
    /\ UNCHANGED << app, token_result, headers, body, request, resp, data,
                    iterable, idx, output, tokenRequests, posts >>

\* a query that is templated with the token
BuildRequestTemplated ==
    /\ pc = "build"
    /\ headers' = [Authorization |-> <<"Bearer ", access_token>>,
                   ContentType |-> <<"application/json">>]
    /\ body' = [Query |-> QueryText \o <<access_token>>]
    /\ pc' = "post"
    /\ UNCHANGED << app, token_result, access_token, request, resp, data,
                    iterable, idx, output, error, exitMessage, tokenRequests, posts >>

\* lines 26-38
BuildRequest ==
    /\ pc = "build"
    /\ headers' = [Authorization |-> <<"Bearer ", access_token>>,
                   ContentType |-> <<"application/json">>]
    /\ body' = [Query |-> QueryText]
    /\ pc' = "post"
    /\ UNCHANGED << app, token_result, access_token, request, resp, data,
                    iterable, idx, output, error, exitMessage, tokenRequests, posts >>

\* line 40
Post ==
    /\ pc = "post"
    /\ request' = [url |-> ENDPOINT, headers |-> headers, data |-> JsonDumps(body)]
    /\ posts' = posts + 1
    /\ \E r \in Responses : resp' = r
    /\ pc' = "status"
    /\ UNCHANGED << app, token_result, access_token, headers, body, data,
                    iterable, idx, output, error, exitMessage, tokenRequests >>

\* a server error is retried once before giving up
RaiseForStatusRetry ==
    /\ pc = "status"
    /\ IF 500 <= resp.status_code /\ resp.status_code < 600 /\ posts < 2
       THEN /\ pc' = "post"
            /\ UNCHANGED error
       ELSE IF 400 <= resp.status_code /\ resp.status_code < 600
       THEN /\ error' = "HTTPError"
            /\ pc' = "abort_http"
       ELSE /\ pc' = "json"
            /\ UNCHANGED error
    /\ UNCHANGED << app, token_result, access_token, headers, body, request, resp,
                    data, iterable, idx, output, exitMessage, tokenRequests, posts >>

\* line 41: Response.raise_for_status raises HTTPError for 4xx and 5xx
RaiseForStatus ==
    /\ pc = "status"
    /\ IF 400 <= resp.status_code /\ resp.status_code < 600
       THEN /\ error' = "HTTPError"
            /\ pc' = "abort_http"
       ELSE /\ pc' = "json"
            /\ UNCHANGED error
    /\ UNCHANGED << app, token_result, access_token, headers, body, request, resp,
                    data, iterable, idx, output, exitMessage, tokenRequests, posts >>

\* a body that is not JSON sends the script back to authentication, once
ParseJsonReauth ==
    /\ pc = "json"
    /\ IF ~resp.body.isJson /\ tokenRequests < 2
       THEN /\ pc' = "acquire"
            /\ UNCHANGED << data, error >>
       ELSE IF ~resp.body.isJson
       THEN /\ error' = "JSONDecodeError"
            /\ pc' = "abort_body"
            /\ UNCHANGED data
       ELSE /\ data' = [top |-> resp.body.top, keys |-> resp.body.keys,
                        results |-> resp.body.results]
            /\ pc' = "get"
            /\ UNCHANGED error
    /\ UNCHANGED << app, token_result, access_token, headers, body, request, resp,
                    iterable, idx, output, exitMessage, tokenRequests, posts >>

\* line 42: Response.json raises JSONDecodeError on a body that is not JSON
ParseJson ==
    /\ pc = "json"
    /\ IF ~resp.body.isJson
       THEN /\ error' = "JSONDecodeError"
            /\ pc' = "abort_body"
            /\ UNCHANGED data
       ELSE /\ data' = [top |-> resp.body.top, keys |-> resp.body.keys,
                        results |-> resp.body.results]
            /\ pc' = "get"
            /\ UNCHANGED error
    /\ UNCHANGED << app, token_result, access_token, headers, body, request, resp,
                    iterable, idx, output, exitMessage, tokenRequests, posts >>

\* data.get("Results"): no default, None when the key is absent
GetOrNone(d) == IF "Results" \in d.keys THEN d.results ELSE JScalar("null")

\* data.get("Results", []) of a dict
GetOrDefault(d) == IF "Results" \in d.keys THEN d.results ELSE JArray(<<>>)

\* the items iter() yields: the elements of a list, the characters of a
\* string, the keys of a dict
Item(kind, row, s) == [t |-> kind, row |-> row, s |-> s]

\* the elements walked from the last to the first
ItemsReversed(v) ==
    IF v.t = "array"
    THEN [i \in 1..Len(v.rows) |-> Item("dict", v.rows[Len(v.rows) + 1 - i], "")]
    ELSE [i \in 1..Len(v.chars) |-> Item("str", <<>>, v.chars[Len(v.chars) + 1 - i])]

Items(v) ==
    IF v.t = "array" THEN [i \in 1..Len(v.rows) |-> Item("dict", v.rows[i], "")]
    ELSE [i \in 1..Len(v.chars) |-> Item("str", <<>>, v.chars[i])]

\* only a list is accepted
IterableListOnly(v) == v.t = "array"

Iterable(v) == v.t \in {"array", "string", "object"}

\* line 45: the loop header.  Only a dict has .get (AttributeError otherwise);
\* iterating None or a number raises TypeError.
GetResults ==
    /\ pc = "get"
    /\ IF data.top # "object"
       THEN /\ error' = "AttributeError"
            /\ pc' = "abort_body"
            /\ UNCHANGED << iterable, idx >>
       ELSE IF ~Iterable(GetOrDefault(data))
       THEN /\ error' = "TypeError"
            /\ pc' = "abort_body"
            /\ UNCHANGED << iterable, idx >>
       ELSE /\ iterable' = Items(GetOrDefault(data))
            /\ idx' = 0
            /\ pc' = "loop"
            /\ UNCHANGED error
    /\ UNCHANGED << app, token_result, access_token, headers, body, request, resp,
                    data, output, exitMessage, tokenRequests, posts >>

\* str(row) as print writes it
PyStr(item) == IF item.t = "str" THEN <<item.s>> ELSE PyStrDict(item.row)

\* lines 45-46: one turn of the loop
PrintRow ==
    /\ pc = "loop"
    /\ idx < Len(iterable)
    /\ output' = Append(output, PyStr(iterable[idx + 1]))
    /\ idx' = idx + 1
    /\ UNCHANGED << pc, app, token_result, access_token, headers, body, request, resp,
                    data, iterable, error, exitMessage, tokenRequests, posts >>

\* line 45: the iterator is exhausted, the script ends
Finish ==
    /\ pc = "loop"
    /\ idx = Len(iterable)
    /\ pc' = "done"
    /\ UNCHANGED << app, token_result, access_token, headers, body, request, resp,
                    data, iterable, idx, output, error, exitMessage, tokenRequests, posts >>

Next ==
    \/ CreateApp
    \/ AcquireToken
    \/ CheckToken
    \/ BuildRequest
    \/ Post
    \/ RaiseForStatus
    \/ ParseJson
    \/ GetResults
    \/ PrintRow
    \/ Finish

Spec == Init /\ [][Next]_vars

\* Every statement of the script is executed once control reaches it.
FairSpec == Spec /\ WF_vars(Next)

\* ------------------------------------------------------------ properties
Success(r) == 200 <= r.status_code /\ r.status_code <= 299
Aborted == {"abort_token", "abort_http", "abort_body"}
TokenChecked == pc \notin {"start", "acquire", "check"}
StatusChecked == pc \in {"json", "get", "loop", "done", "abort_http", "abort_body"}
Bearer(tr) == <<"Bearer ", DictGet(tr, "access_token")>>

\* C1: a token response without access_token aborts the run with a message
\* that contains the response (its str(), hence every key and value of it);
\* no POST was sent and no row was printed.
C1_MissingTokenAborts ==
    (TokenChecked /\ ~HasKey(token_result, "access_token")) =>
        /\ pc = "abort_token"
        /\ error = "SystemExit"
        /\ Contains(exitMessage, PyStrDict(token_result))
        /\ \A i \in 1..Len(token_result) :
              /\ Contains(exitMessage, <<token_result[i][1]>>)
              /\ Contains(exitMessage, <<token_result[i][2]>>)
        /\ posts = 0
        /\ request = NoRequest
        /\ output = <<>>

C1_Witness ==
    /\ pc = "abort_token"
    /\ Len(token_result) = 2
    /\ HasKey(token_result, "error")

\* C2: once the status of the answer is not 2xx, no row is ever printed and the
\* run can only end with an error.
C2_NonSuccessRaises ==
    (StatusChecked /\ ~Success(resp)) =>
        /\ output = <<>>
        /\ pc # "done"

\* C3: for a 2xx answer whose Results is an array, the lines printed so far are
\* the str() of the first idx rows, in the array's order; at the end every row
\* has been printed, once; different rows print differently.
C3_RowsPrintedInOrder ==
    (StatusChecked /\ Success(resp) /\ resp.body.isJson /\ resp.body.top = "object"
       /\ "Results" \in resp.body.keys /\ resp.body.results.t = "array") =>
        LET rs == resp.body.results.rows
            n == IF pc \in {"loop", "done"} THEN idx ELSE 0
        IN  /\ pc \in {"json", "get", "loop", "done"}
            /\ n <= Len(rs)
            /\ output = [i \in 1..n |-> PyStrDict(rs[i])]
            /\ pc = "done" => Len(output) = Len(rs)
            /\ \A i, j \in 1..Len(rs) :
                  PyStrDict(rs[i]) = PyStrDict(rs[j]) => rs[i] = rs[j]

C3_Witness ==
    /\ pc = "done"
    /\ Success(resp)
    /\ resp.body.results.t = "array"
    /\ Len(resp.body.results.rows) = 2
    /\ resp.body.results.rows[1] # resp.body.results.rows[2]
    /\ Len(output) = 2

\* C4: for a 2xx answer that is an object without a Results field, nothing is
\* printed and the run ends without an error.
C4_NoResultsPrintsNothing ==
    (StatusChecked /\ Success(resp) /\ resp.body.isJson /\ resp.body.top = "object"
       /\ "Results" \notin resp.body.keys) =>
        /\ pc \in {"json", "get", "loop", "done"}
        /\ output = <<>>
        /\ error = ""

C4_Witness ==
    /\ pc = "done"
    /\ Success(resp)
    /\ resp.body.top = "object"
    /\ resp.body.keys = {"Stats"}

\* C5 as stated: a run ends abnormally only when the token is missing or the
\* status is not 2xx.
C5_OnlyTwoFailurePoints ==
    pc \in Aborted =>
        \/ ~HasKey(token_result, "access_token")
        \/ posts = 1 /\ ~Success(resp)

\* a body the script cannot print from: not JSON, not a JSON object, or an
\* object whose Results is null or a number
Unprintable(b) ==
    \/ ~b.isJson
    \/ b.top # "object"
    \/ "Results" \in b.keys /\ b.results.t \in {"null", "number"}

\* C5 amended: a run ends abnormally only when the token is missing, the status
\* is not 2xx, or the 2xx answer has a body the script cannot print from; with a
\* token, a 2xx status and any other body the run does not end abnormally.
C5_FailurePoints ==
    pc \in Aborted =>
        \/ ~HasKey(token_result, "access_token")
        \/ posts = 1 /\ ~Success(resp)
        \/ posts = 1 /\ Success(resp) /\ Unprintable(resp.body)

C5_Witness ==
    /\ pc = "abort_body"
    /\ error = "TypeError"
    /\ Success(resp)
    /\ HasKey(token_result, "access_token")

\* C6: at most one token request and at most one POST in a run, and none at
\* all once the run has failed.
C6_AtMostOnce ==
    /\ [](tokenRequests <= 1 /\ posts <= 1)
    /\ [][(pc \in Aborted) => (tokenRequests' = tokenRequests /\ posts' = posts)]_vars

C6_Witness ==
    /\ pc = "abort_http"
    /\ tokenRequests = 1
    /\ posts = 1

\* C7: the POST is sent only after a token response with access_token, its
\* Authorization header is "Bearer " followed by that token, and a row is
\* printed only after the POST returned a success status and was parsed.
C7_FixedOrder ==
    /\ posts > 0 =>
          /\ tokenRequests = 1
          /\ HasKey(token_result, "access_token")
          /\ request.headers.Authorization = Bearer(token_result)
    /\ output # <<>> =>
          /\ posts = 1
          /\ Success(resp)
          /\ data # NoData

\* C8: the payload of the POST is the JSON encoding of {"Query": q} for the
\* query constant q, whatever the token response was, and decodes back to q.
C8_FixedBody ==
    posts > 0 =>
        /\ request.url = ENDPOINT
        /\ request.data = JsonDumps([Query |-> QueryText])
        /\ JsonLoadsQuery(request.data) = QueryText

C8_Witness ==
    /\ posts = 1
    /\ access_token = "tokB"
    /\ Len(token_result) = 2

Phase(p) ==
    IF p \in {"start", "acquire", "check"} THEN 1
    ELSE IF p \in {"build", "post", "status", "json"} THEN 2
    ELSE IF p \in {"get", "loop"} THEN 3
    ELSE 4

\* C9 as stated: a run that has stopped is in one of three terminal states.
C9_ThreeTerminalStates ==
    ~ENABLED Next => pc \in {"abort_token", "abort_http", "done"}

\* C9 amended: every run stops, in one of four terminal states (aborted on a
\* missing token, on an HTTP error, on a body that cannot be parsed or
\* iterated, or finished after printing), stays there, and its phase never
\* moves backwards.
C9_FourTerminalStates ==
    /\ <>(pc \in Aborted \cup {"done"})
    /\ [](pc \in Aborted \cup {"done"} <=> ~ENABLED Next)
    /\ [][Phase(pc') >= Phase(pc)]_vars

C9_Witness ==
    /\ pc = "abort_body"
    /\ error = "JSONDecodeError"
    /\ Success(resp)

\* C10: the run proceeds past the token check exactly when the token response
\* has an access_token field, whatever else it holds, and the POST then carries
\* that token.
C10_PresenceDecides ==
    TokenChecked =>
        /\ HasKey(token_result, "access_token") <=> pc # "abort_token"
        /\ posts = 1 => request.headers.Authorization = Bearer(token_result)

C10_Witness ==
    /\ posts = 1
    /\ HasKey(token_result, "access_token")
    /\ HasKey(token_result, "error")
    /\ request.headers.Authorization = Bearer(token_result)

====
